---- MODULE Spec2Model ----
(***************************************************************************)
(* Model of the training launcher nvas3d/main.py: argument validation, the *)
(* choice between the single-device and the multi-device topology, the     *)
(* experiment-directory bootstrap and the fixed call chain of main().      *)
(*                                                                         *)
(* The launching process and every process that runs main() are modelled   *)
(* step by step; the collaborators (SSAVDataLoader, NVASNet, Trainer) are  *)
(* black boxes whose only modelled behaviours are "returns" and "raises".  *)
(***************************************************************************)
EXTENDS Integers, Sequences, FiniteSets

\* ------------------------------------------------------------------ bounds
\* Largest number of visible accelerator devices explored.
MaxDevices == 2
\* Length of the config file, in the blocks shutil.copy writes one at a time.
NumChunks == 2

\* ------------------------------------------------------------------- state
VARIABLES
    deviceCount,   \* torch.cuda.device_count()
    configKind,    \* what args.config names: "file", "dir" or "absent"
    gpu,           \* args.gpu: None or <<id>>
    launcher,      \* position of the launching process (the __main__ block)
    exitCode,      \* exit status of the launching process: None or <<code>>
    logs,          \* what logging.error has written, in order
    host,          \* per process slot: "none", "launcher" or "child"
    local_rank,    \* per process: the local_rank argument of main
    pc,            \* per process: position inside main
    trace,         \* per process: the steps of main completed so far, in order
    error,         \* per process: the exception that ended main ("" if none)
    failedAt,      \* per process: the position at which that exception was raised
    device,        \* per process: index of the cuda device selected, None or <<i>>
    pg,            \* per process: its init_process_group call, None or <<record>>
    destroyed,     \* per process: number of destroy_process_group calls made
    wrapped,       \* per process: model wrapped in DistributedDataParallel
    dirState,      \* <save_dir>/<exp>: "absent", "dir" or "file"
    destExists,    \* <save_dir>/<exp>/config.yaml exists
    dest,          \* content of <save_dir>/<exp>/config.yaml, block by block
    copyPos,       \* per process: write offset of its open destination handle
    overlapped     \* history: some copy truncated the file under another writer

envVars      == <<deviceCount, configKind, gpu>>
launcherVars == <<launcher, exitCode, logs>>
slotVars     == <<host, local_rank>>
mainVars     == <<pc, trace, error, failedAt, device, pg, destroyed, wrapped>>
fsVars       == <<dirState, destExists, dest, copyPos, overlapped>>
vars         == <<envVars, launcherVars, slotVars, mainVars, fsVars>>

\* ----------------------------------------------------------------- helpers
None == <<>>
Proc == 1..MaxDevices
GpuIds == (0 - 1)..MaxDevices

\* The source config file and the unwritten gap a write past the end leaves.
Hole == <<>>
Src == [i \in 1..NumChunks |-> <<i>>]
Stale == [i \in 1..(NumChunks + 1) |-> <<NumChunks + 1>>]

Running(p) == pc[p] \notin {"idle", "done", "failed", "killed"}
Children == {p \in Proc : host[p] = "child"}
Did(p, step) == \E i \in 1..Len(trace[p]) : trace[p][i] = step

\* -------------------------------------------------------- validate_args
\* os.path.isfile: true only of an existing regular file.
isfile(kind) == kind = "file"

\* Mutant: the GPU id is checked before the config path.
validate_args_gpu_first(config, g, count) ==
    IF g # None /\ (g[1] < 0 \/ g[1] >= count) THEN "ValueError"
    ELSE IF ~isfile(config) THEN "FileNotFoundError"
    ELSE "ok"

\* Mutant: the upper end of the range is tested with > instead of >=.
validate_args_off_by_one(config, g, count) ==
    IF ~isfile(config) THEN "FileNotFoundError"
    ELSE IF g # None /\ (g[1] < 0 \/ g[1] > count) THEN "ValueError"
    ELSE "ok"

\* validate_args(args): the exception it raises, or "ok" when it returns.
validate_args(config, g, count) ==
    IF ~isfile(config) THEN "FileNotFoundError"
    ELSE IF g # None /\ (g[1] < 0 \/ g[1] >= count) THEN "ValueError"
    ELSE "ok"

\* Mutant: the handler names FileNotFoundError only.
Caught_file_only == {"FileNotFoundError"}

\* The exception types the top-level try/except catches.
Caught == {"FileNotFoundError", "ValueError"}

\* ------------------------------------------------- topology of the run
\* Mutant: main always takes the distributed branch.
is_ddp_always == TRUE

\* Mutant: a world size that is not the number of processes launched.
world_size_plus_one == deviceCount + 1

\* main: is_ddp = args.gpu is None
is_ddp == gpu = None
\* setup_distributed_training: world_size = torch.cuda.device_count()
world_size == deviceCount
\* mp.spawn(..., nprocs=torch.cuda.device_count(), ...)
nprocs == deviceCount
\* init_method of init_process_group
init_method == "tcp://localhost:12355"
\* mp.spawn calls fn(i, *args) for i in range(nprocs): slot p runs rank p - 1.
SpawnRank(p) == p - 1

\* ------------------------------------------------- file-system helpers
\* os.makedirs(save_dir, exist_ok=...)
exist_ok == TRUE
makedirs(state, ok) ==
    IF state = "absent" THEN "created"
    ELSE IF ok /\ state = "dir" THEN "exists"
    ELSE "FileExistsError"

\* Mutant: the destination is opened without being emptied.
OpenForWrite_keep(f) == f

\* shutil.copy opens the destination for writing, which empties it.
OpenForWrite(f) == <<>>

\* A write of block c at 0-based offset off of a file with content f.
WriteAt(f, off, c) ==
    LET n == IF Len(f) > off + 1 THEN Len(f) ELSE off + 1
    IN  [i \in 1..n |-> IF i = off + 1 THEN c
                        ELSE IF i <= Len(f) THEN f[i] ELSE Hole]

\* ------------------------------------------------- control flow of main
\* Mutant: the directory bootstrap is skipped.
AfterLoad_no_bootstrap == "data_loader"

\* Mutant: main ends after trainer.train() in both modes.
AfterTrain_no_teardown == "done"

\* Position after the config has been loaded.
AfterLoad == "makedirs"
\* Position after model.to(device).
AfterToDevice == IF is_ddp THEN "wrap" ELSE "trainer"
\* Position after trainer.train() has returned.
AfterTrain == IF is_ddp THEN "destroy" ELSE "done"

\* A step of main completes: record it and move on.
Advance(p, step, to) ==
    /\ pc' = [pc EXCEPT ![p] = to]
    /\ trace' = [trace EXCEPT ![p] = Append(@, step)]

\* main returns in process p. In the launching process this is the end of the
\* script (exit status 0); a child's exit is seen by the launcher's join.
ReturnTo(p) ==
    IF host[p] = "launcher"
    THEN /\ launcher' = "exited"
         /\ exitCode' = <<0>>
         /\ UNCHANGED logs
    ELSE UNCHANGED launcherVars

\* Mutant: the call of main sits inside the top-level try, so that an exception
\* of main in the launching process is logged and ends the script as a
\* validation failure does.
Propagate_handled(p, exc) ==
    /\ pc' = [pc EXCEPT ![p] = "failed"]
    /\ error' = [error EXCEPT ![p] = exc]
    /\ failedAt' = [failedAt EXCEPT ![p] = pc[p]]
    /\ IF host[p] = "launcher"
       THEN /\ launcher' = "exited"
            /\ exitCode' = <<1>>
            /\ logs' = Append(logs, exc)
       ELSE UNCHANGED launcherVars

\* An exception leaves main in process p. Nothing in main or around the call of
\* main catches it: in the launching process the interpreter prints the
\* traceback and ends with status 1; a child ends and the launcher's join sees it.
Propagate(p, exc) ==
    /\ pc' = [pc EXCEPT ![p] = "failed"]
    /\ error' = [error EXCEPT ![p] = exc]
    /\ failedAt' = [failedAt EXCEPT ![p] = pc[p]]
    /\ IF host[p] = "launcher"
       THEN /\ launcher' = "crashed"
            /\ exitCode' = <<1>>
            /\ UNCHANGED logs
       ELSE UNCHANGED launcherVars

\* ---------------------------------------------------------------- Init
Init ==
    /\ deviceCount \in 0..MaxDevices
    /\ configKind \in {"file", "dir", "absent"}
    /\ gpu \in {None} \cup {<<g>> : g \in GpuIds}
    /\ launcher = "start"
    /\ exitCode = None
    /\ logs = <<>>
    /\ host = [p \in Proc |-> "none"]
    /\ local_rank = [p \in Proc |-> 0]
    /\ pc = [p \in Proc |-> "idle"]
    /\ trace = [p \in Proc |-> <<>>]
    /\ error = [p \in Proc |-> ""]
    /\ failedAt = [p \in Proc |-> ""]
    /\ device = [p \in Proc |-> None]
    /\ pg = [p \in Proc |-> None]
    /\ destroyed = [p \in Proc |-> 0]
    /\ wrapped = [p \in Proc |-> FALSE]
    /\ dirState \in {"absent", "dir", "file"}
    /\ destExists \in BOOLEAN
    /\ (destExists => dirState = "dir")
    /\ dest = IF destExists THEN Stale ELSE <<>>
    /\ copyPos = [p \in Proc |-> 0]
    /\ overlapped = FALSE

\* ------------------------------------------------ the launching process
\* try: validate_args(args) returns.
ValidateOk ==
    /\ launcher = "start"
    /\ validate_args(configKind, gpu, deviceCount) = "ok"
    /\ launcher' = "validated"
    /\ UNCHANGED <<exitCode, logs, envVars, slotVars, mainVars, fsVars>>

\* try: validate_args(args) raises; except (...): logging.error(e); exit(1).
\* An exception of a type the handler does not name leaves the script.
ValidateRejected ==
    /\ launcher = "start"
    /\ LET r == validate_args(configKind, gpu, deviceCount)
       IN  /\ r # "ok"
           /\ IF r \in Caught
              THEN /\ logs' = Append(logs, r)
                   /\ launcher' = "exited"
                   /\ exitCode' = <<1>>
              ELSE /\ logs' = logs
                   /\ launcher' = "crashed"
                   /\ exitCode' = <<1>>
    /\ UNCHANGED <<envVars, slotVars, mainVars, fsVars>>

\* if args.gpu is not None: main(0, args)
RunSingle ==
    /\ launcher = "validated"
    /\ gpu # None
    /\ launcher' = "main"
    /\ host' = [host EXCEPT ![1] = "launcher"]
    /\ local_rank' = [local_rank EXCEPT ![1] = 0]
    /\ pc' = [pc EXCEPT ![1] = "select_device"]
    /\ UNCHANGED <<exitCode, logs, envVars, fsVars,
                   trace, error, failedAt, device, pg, destroyed, wrapped>>

\* else: mp.spawn(main, args=(args,), nprocs=..., join=True): start the children.
Spawn ==
    /\ launcher = "validated"
    /\ gpu = None
    /\ launcher' = "spawned"
    /\ host' = [p \in Proc |-> IF p <= nprocs THEN "child" ELSE host[p]]
    /\ local_rank' = [p \in Proc |-> IF p <= nprocs THEN SpawnRank(p) ELSE local_rank[p]]
    /\ pc' = [p \in Proc |-> IF p <= nprocs THEN "select_device" ELSE pc[p]]
    /\ UNCHANGED <<exitCode, logs, envVars, fsVars,
                   trace, error, failedAt, device, pg, destroyed, wrapped>>

\* mp.spawn, join=True: every child has ended normally (at once when there is
\* no child); the script ends with status 0.
JoinOk ==
    /\ launcher = "spawned"
    /\ \A p \in Children : pc[p] = "done"
    /\ launcher' = "exited"
    /\ exitCode' = <<0>>
    /\ UNCHANGED <<logs, envVars, slotVars, mainVars, fsVars>>

\* mp.spawn, join=True: a child has ended with an exception; the join ends the
\* children still running and raises in the launcher, which nothing catches.
JoinFail ==
    /\ launcher = "spawned"
    /\ \E p \in Children : pc[p] = "failed"
    /\ pc' = [p \in Proc |-> IF Running(p) THEN "killed" ELSE pc[p]]
    /\ launcher' = "crashed"
    /\ exitCode' = <<1>>
    /\ UNCHANGED <<logs, envVars, slotVars, fsVars,
                   trace, error, failedAt, device, pg, destroyed, wrapped>>

\* ------------------------------------------------------- steps of main
\* is_ddp: setup_distributed_training calls init_process_group(...).
SetupDistributed(p) ==
    /\ pc[p] = "select_device"
    /\ is_ddp
    /\ pg' = [pg EXCEPT ![p] = <<[backend |-> "nccl", init_method |-> init_method,
                                  rank |-> local_rank[p], world_size |-> world_size]>>]
    /\ pc' = [pc EXCEPT ![p] = "rendezvous"]
    /\ UNCHANGED <<envVars, launcherVars, slotVars, fsVars,
                   trace, error, failedAt, device, destroyed, wrapped>>

\* init_process_group returns once the ranks 0..world_size-1 have all joined at
\* the same address; then device = torch.device(f'cuda:{local_rank}').
Rendezvous(p) ==
    /\ pc[p] = "rendezvous"
    /\ LET joined == {q \in Proc : pg[q] # None /\ pg[q][1].init_method = pg[p][1].init_method}
       IN  /\ {pg[q][1].rank : q \in joined} = 0..(pg[p][1].world_size - 1)
           /\ Cardinality(joined) = pg[p][1].world_size
    /\ device' = [device EXCEPT ![p] = <<local_rank[p]>>]
    /\ Advance(p, "setup_distributed", "load")
    /\ UNCHANGED <<envVars, launcherVars, slotVars, fsVars,
                   error, failedAt, pg, destroyed, wrapped>>

\* not is_ddp: device = torch.device(f'cuda:{args.gpu}'); torch.cuda.set_device(args.gpu)
SelectDevice(p) ==
    /\ pc[p] = "select_device"
    /\ ~is_ddp
    /\ device' = [device EXCEPT ![p] = gpu]
    /\ Advance(p, "set_device", "load")
    /\ UNCHANGED <<envVars, launcherVars, slotVars, fsVars,
                   error, failedAt, pg, destroyed, wrapped>>

\* with open(args.config) as f: config = yaml.safe_load(f)
LoadConfig(p) ==
    /\ pc[p] = "load"
    /\ Advance(p, "load", AfterLoad)
    /\ UNCHANGED <<envVars, launcherVars, slotVars, fsVars,
                   error, failedAt, device, pg, destroyed, wrapped>>

\* save_dir = os.path.join(...); os.makedirs(save_dir, exist_ok=True)
MakeDirs(p) ==
    /\ pc[p] = "makedirs"
    /\ LET r == makedirs(dirState, exist_ok)
       IN  IF r = "FileExistsError"
           THEN /\ Propagate(p, r)
                /\ UNCHANGED <<trace, dirState>>
           ELSE /\ dirState' = "dir"
                /\ Advance(p, "makedirs", "copy_open")
                /\ UNCHANGED <<launcherVars, error, failedAt>>
    /\ UNCHANGED <<envVars, slotVars, device, pg, destroyed, wrapped,
                   destExists, dest, copyPos, overlapped>>

\* shutil.copy(args.config, f'{save_dir}/config.yaml'): open the destination.
CopyOpen(p) ==
    /\ pc[p] = "copy_open"
    /\ destExists' = TRUE
    /\ dest' = OpenForWrite(dest)
    /\ copyPos' = [copyPos EXCEPT ![p] = 0]
    /\ overlapped' = (overlapped \/ \E q \in Proc \ {p} : pc[q] = "copy_write" /\ copyPos[q] > 0)
    /\ pc' = [pc EXCEPT ![p] = "copy_write"]
    /\ UNCHANGED <<envVars, launcherVars, slotVars, dirState,
                   trace, error, failedAt, device, pg, destroyed, wrapped>>

\* shutil.copy: write the next block of the source at the handle's offset; the
\* copy is complete after the last block.
CopyWrite(p) ==
    /\ pc[p] = "copy_write"
    /\ dest' = WriteAt(dest, copyPos[p], Src[copyPos[p] + 1])
    /\ copyPos' = [copyPos EXCEPT ![p] = @ + 1]
    /\ IF copyPos[p] + 1 = NumChunks
       THEN Advance(p, "copy", "data_loader")
       ELSE UNCHANGED <<pc, trace>>
    /\ UNCHANGED <<envVars, launcherVars, slotVars, dirState, destExists, overlapped,
                   error, failedAt, device, pg, destroyed, wrapped>>

\* data_loader = SSAVDataLoader(...)
InitDataLoader(p) ==
    /\ pc[p] = "data_loader"
    /\ Advance(p, "data_loader", "model")
    /\ UNCHANGED <<envVars, launcherVars, slotVars, fsVars,
                   error, failedAt, device, pg, destroyed, wrapped>>

\* model = NVASNet(...)
InitModel(p) ==
    /\ pc[p] = "model"
    /\ Advance(p, "model", "to_device")
    /\ UNCHANGED <<envVars, launcherVars, slotVars, fsVars,
                   error, failedAt, device, pg, destroyed, wrapped>>

\* model = model.to(device)
ModelToDevice(p) ==
    /\ pc[p] = "to_device"
    /\ Advance(p, "to_device", AfterToDevice)
    /\ UNCHANGED <<envVars, launcherVars, slotVars, fsVars,
                   error, failedAt, device, pg, destroyed, wrapped>>

\* if is_ddp: model = DistributedDataParallel(model, device_ids=[local_rank])
WrapDDP(p) ==
    /\ pc[p] = "wrap"
    /\ wrapped' = [wrapped EXCEPT ![p] = TRUE]
    /\ Advance(p, "ddp_wrap", "trainer")
    /\ UNCHANGED <<envVars, launcherVars, slotVars, fsVars,
                   error, failedAt, device, pg, destroyed>>

\* trainer = Trainer(...)
InitTrainer(p) ==
    /\ pc[p] = "trainer"
    /\ Advance(p, "trainer", "train")
    /\ UNCHANGED <<envVars, launcherVars, slotVars, fsVars,
                   error, failedAt, device, pg, destroyed, wrapped>>

\* trainer.train(); without is_ddp this is the last statement of main.
Train(p) ==
    /\ pc[p] = "train"
    /\ Advance(p, "train", AfterTrain)
    /\ IF AfterTrain = "done" THEN ReturnTo(p) ELSE UNCHANGED launcherVars
    /\ UNCHANGED <<envVars, slotVars, fsVars,
                   error, failedAt, device, pg, destroyed, wrapped>>

\* if is_ddp: dist.destroy_process_group(); the last statement of main.
DestroyPG(p) ==
    /\ pc[p] = "destroy"
    /\ destroyed' = [destroyed EXCEPT ![p] = @ + 1]
    /\ Advance(p, "destroy", "done")
    /\ ReturnTo(p)
    /\ UNCHANGED <<envVars, slotVars, fsVars,
                   error, failedAt, device, pg, wrapped>>

\* Any statement of main may raise (a malformed YAML file, a missing config key,
\* an I/O error, a device allocation failure, a failure inside a collaborator).
Raise(p) ==
    /\ Running(p)
    /\ Propagate(p, "Exception")
    /\ UNCHANGED <<envVars, slotVars, fsVars,
                   trace, device, pg, destroyed, wrapped>>

Step(p) ==
    \/ SetupDistributed(p) \/ Rendezvous(p) \/ SelectDevice(p)
    \/ LoadConfig(p) \/ MakeDirs(p) \/ CopyOpen(p) \/ CopyWrite(p)
    \/ InitDataLoader(p) \/ InitModel(p) \/ ModelToDevice(p) \/ WrapDDP(p)
    \/ InitTrainer(p) \/ Train(p) \/ DestroyPG(p)
    \/ Raise(p)

Next ==
    \/ ValidateOk \/ ValidateRejected \/ RunSingle \/ Spawn \/ JoinOk \/ JoinFail
    \/ \E p \in Proc : Step(p)

Spec == Init /\ [][Next]_vars

\* ================================================================ claims
\* validate_args has returned or raised, and the launcher has acted on it.
Validated == launcher # "start"
\* The launcher has passed validation and started main or the children.
Launched == launcher \notin {"start", "validated"}
                /\ validate_args(configKind, gpu, deviceCount) = "ok"
GpuOutOfRange == gpu # None /\ (gpu[1] < 0 \/ gpu[1] >= deviceCount)
IsPrefix(s, t) == Len(s) <= Len(t) /\ \A i \in 1..Len(s) : s[i] = t[i]
\* The order of the steps of main, per mode.
ExpectedOrder ==
    IF gpu = None
    THEN <<"setup_distributed", "load", "makedirs", "copy", "data_loader", "model",
           "to_device", "ddp_wrap", "trainer", "train", "destroy">>
    ELSE <<"set_device", "load", "makedirs", "copy", "data_loader", "model",
           "to_device", "trainer", "train">>

\* C1: validation raises FileNotFoundError exactly when args.config is not an
\* existing regular file, whatever args.gpu and the device count are; when the
\* path and the GPU id are both invalid the outcome is FileNotFoundError.
C1_ConfigCheckedFirst ==
    Validated => ((logs = <<"FileNotFoundError">>) <=> (configKind # "file"))

C1_Witness ==
    /\ Validated
    /\ configKind = "absent"
    /\ GpuOutOfRange
    /\ logs = <<"FileNotFoundError">>

\* C2: given an existing config file, validation raises ValueError exactly when
\* a GPU id is supplied and lies outside 0..device_count-1; with an id in range,
\* or none supplied, it returns without raising.
C2_GpuRange ==
    (Validated /\ configKind = "file") =>
        /\ (logs = <<"ValueError">>) <=> GpuOutOfRange
        /\ ~GpuOutOfRange => (logs = <<>> /\ ~(launcher = "exited" /\ exitCode = <<1>>))

C2_Witness ==
    /\ Validated
    /\ configKind = "file"
    /\ deviceCount >= 1
    /\ gpu = <<deviceCount>>
    /\ logs = <<"ValueError">>

\* C3: when validation fails the launcher logs the error and exits with status
\* 1, and nothing of the run ever starts: no main, no child process, no process
\* group, no directory or config copy, no collaborator.
C3_RejectedBeforeWork ==
    LET r == validate_args(configKind, gpu, deviceCount)
    IN  r # "ok" =>
            /\ launcher \in {"start", "exited"}
            /\ launcher = "exited" => (exitCode = <<1>> /\ logs = <<r>>)
            /\ \A p \in Proc :
                  /\ host[p] = "none" /\ pc[p] = "idle" /\ trace[p] = <<>>
                  /\ pg[p] = None /\ device[p] = None /\ ~wrapped[p]
                  /\ copyPos[p] = 0
            /\ dest = (IF destExists THEN Stale ELSE <<>>)

C3_Witness ==
    /\ launcher = "exited"
    /\ exitCode = <<1>>
    /\ logs = <<"ValueError">>

\* C4: with a GPU id supplied main runs once, in the launching process, with
\* local_rank 0 and on device cuda:<gpu>, and never touches a process group or
\* DistributedDataParallel; with none supplied main runs only in spawned
\* processes, each on cuda:<local_rank> inside the process group and with a
\* wrapped model. No run takes both paths.
C4_TopologySelection ==
    /\ (gpu # None /\ Launched) => Cardinality({p \in Proc : host[p] = "launcher"}) = 1
    /\ gpu # None =>
          \A p \in Proc :
              /\ host[p] # "child"
              /\ pg[p] = None /\ destroyed[p] = 0 /\ ~wrapped[p]
              /\ ~Did(p, "setup_distributed") /\ ~Did(p, "ddp_wrap") /\ ~Did(p, "destroy")
              /\ host[p] = "launcher" => local_rank[p] = 0
              /\ Did(p, "set_device") => device[p] = gpu
    /\ gpu = None =>
          \A p \in Proc :
              /\ host[p] # "launcher"
              /\ ~Did(p, "set_device")
              /\ Did(p, "load") => (pg[p] # None /\ device[p] = <<local_rank[p]>>)
              /\ Did(p, "trainer") => (wrapped[p] /\ Did(p, "ddp_wrap"))
    /\ ~(\E p, q \in Proc : host[p] = "launcher" /\ host[q] = "child")

C4_Witness ==
    /\ gpu = <<1>>
    /\ host[1] = "launcher" /\ local_rank[1] = 0
    /\ pc[1] = "done"
    /\ device[1] = <<1>>

\* C5: in multi-device mode exactly device_count processes run main, with local
\* ranks exactly 0..device_count-1, and each joins the process group with its
\* local rank, world_size = device_count and the one fixed address.
C5_OneProcessPerDevice ==
    /\ (gpu = None /\ Launched) =>
          /\ Cardinality(Children) = deviceCount
          /\ {local_rank[p] : p \in Children} = 0..(deviceCount - 1)
    /\ \A p \in Proc :
          pg[p] # None =>
              /\ p \in Children
              /\ pg[p][1].rank = local_rank[p]
              /\ pg[p][1].world_size = deviceCount
              /\ pg[p][1].world_size = Cardinality(Children)
              /\ pg[p][1].init_method = "tcp://localhost:12355"

C5_Witness ==
    /\ gpu = None
    /\ deviceCount = MaxDevices
    /\ \A p \in Proc : Did(p, "setup_distributed") /\ device[p] = <<p - 1>>

\* C6 as stated: every spawned process that initialised the process group has
\* destroyed it when its run of main has ended, failed runs included.
C6_TeardownInEveryRun ==
    \A p \in Children :
        (Did(p, "setup_distributed") /\ pc[p] \in {"done", "failed", "killed"})
            => destroyed[p] = 1

\* C6 amended: a spawned process destroys the process group exactly when its
\* run of main reaches its last statement: once, after trainer.train() has
\* returned; a process that fails or is ended earlier never destroys it.
C6_TeardownOnNormalEnd ==
    \A p \in Proc :
        /\ destroyed[p] <= 1
        /\ destroyed[p] = 1 => (Did(p, "train") /\ trace[p][Len(trace[p])] = "destroy")
        /\ (p \in Children /\ pc[p] = "done") => (pg[p] # None /\ destroyed[p] = 1)
        /\ pc[p] \in {"failed", "killed"} => destroyed[p] = 0

C6_Witness ==
    \E p \in Children : pc[p] = "done" /\ destroyed[p] = 1 /\ Did(p, "train")

C8_FailuresPropagate ==
    /\ [](\A p \in Proc :
            pc[p] = "failed" =>
                /\ logs = <<>>
                /\ exitCode # <<0>>
                /\ host[p] = "launcher" => launcher = "crashed"
                /\ host[p] = "child" => launcher \in {"spawned", "crashed"}
                /\ ~Did(p, "train") \/ failedAt[p] = "destroy")
    /\ [][\A p \in Proc :
            pc[p] = "failed" =>
                /\ pc'[p] = "failed"
                /\ trace'[p] = trace[p]
                /\ destroyed'[p] = destroyed[p]
                /\ wrapped'[p] = wrapped[p]
                /\ logs' = logs]_vars

C8_Witness ==
    /\ gpu # None
    /\ pc[1] = "failed"
    /\ failedAt[1] = "load"
    /\ launcher = "crashed"

\* C9: in multi-device mode every rank creates the same directory and writes
\* the same destination file with nothing ordering the ranks; no rank fails
\* because the directory exists already, and once every rank has completed its
\* copy the destination holds the source config.
C9_ConcurrentBootstrap ==
    /\ \A p \in Children :
          /\ error[p] = "FileExistsError" => dirState = "file"
          /\ Did(p, "makedirs") => dirState = "dir"
          /\ Did(p, "copy") => destExists
    /\ (Children # {} /\ \A p \in Children : Did(p, "copy")) => dest = Src

C9_Witness ==
    /\ Cardinality(Children) >= 2
    /\ overlapped
    /\ \A p \in Children : Did(p, "copy")
    /\ dest = Src

\* C10: every run that passes validation and ends normally has trained on at
\* least one device.
C10_TrainsOnADevice ==
    (launcher = "exited" /\ exitCode = <<0>>) => \E p \in Proc : Did(p, "train")

====
